---- MODULE Spec2Model ----
(***************************************************************************)
(* Per-session connection orchestrator of the voice agent backend:         *)
(*   - AgentStateMachine            (backend/src/agent/state.ts, stored in  *)
(*                                   src/backend/src/logger.ts:55-144)      *)
(*   - ClientHandler                (src/backend/src/ws/client.ts:238-583)  *)
(*   - OpenAIRealtimeConnection     (src/backend/src/ws/openai.ts:392-843)  *)
(*   - transport close handler      (src/backend/src/index.ts:262-357)      *)
(* One session, its upstream connection manager, the upstream sockets it    *)
(* creates, the timers it arms and the wall clock (Date.now()).             *)
(***************************************************************************)
EXTENDS Integers, Sequences, FiniteSets, TLC

(***************************************************************************)
(* Bounds of the exploration.                                              *)
(***************************************************************************)
\* MAX_AUDIO_BUFFER_BYTES is read from the environment (config.ts:83); the
\* model runs the deployment MAX_AUDIO_BUFFER_BYTES=6000.
MAX_AUDIO_BUFFER_BYTES == 6000
\* the two sizes of inbound audio chunks: one below and one above the
\* minimum utterance; three small chunks fill the buffer exactly
ChunkSmall == 2000
ChunkLarge == 4096
\* upstream sockets that may exist at the same time
MaxSockets == 2
\* Date.now() at session creation, and the number of clock advances explored
StartTime == 100000
MaxTicks == 1
\* connection failures explored before the environment stops failing
MaxFailures == 2
\* calls explored by the stand-alone state machine specification
MaxCalls == 3
\* connection failures and clock advances explored by the circuit breaker
\* specification, which has to pass failureThreshold and the cooldown
MaxFailuresCB == 6
MaxTicksCB == 3
\* maxAttempts of the reconnectionConfig explored by the specification of
\* reconnect exhaustion (the constructor takes it as a parameter)
MaxAttemptsRA == 2
\* terminal failure reports after which that specification stops
MaxReportsRA == 2
\* WS_RATE_LIMIT_MESSAGES is read from the environment (rate-limit.ts:82);
\* the model runs the deployment WS_RATE_LIMIT_MESSAGES=3
maxMessages == 3
\* clock advances explored by the specifications of the rate limiter
MaxTicksRL == 4

(***************************************************************************)
(* Program constants.                                                      *)
(***************************************************************************)
MinCommitBytes == 3200
SPEAKING_CONFIRMATION_MS == 200
SPEECH_COOLDOWN_MS == 300
connectionTimeoutMs == 15000
failureThreshold == 5
resetTimeoutMs == 60000
maxAttempts == 10
initialDelayMs == 1000
maxDelayMs == 30000
backoffMultiplier == 2
jitterMs == 500
windowMs == 1000
MIN_AUDIO_PACKET_SIZE == 64
MAX_AUDIO_PACKET_BYTES == 65536

NULL == -1
\* this.connectTimeout after its callback has run: the field keeps the
\* handle of the expired timer until a listener or disconnect() clears it
EXPIRED == -2

ChunkSizes == {ChunkSmall, ChunkLarge}
TickDeltas == {SPEAKING_CONFIRMATION_MS, resetTimeoutMs}
\* Math.random() * jitterMs * 2 - jitterMs lies in [-jitterMs, jitterMs)
Jitters == {-jitterMs, jitterMs - 1}
SocketIds == 1..MaxSockets

AgentState == {"IDLE", "LISTENING", "THINKING", "SPEAKING"}

UpstreamMessageTypes ==
  {"response.audio.delta", "response.done", "response.completed",
   "input_audio_buffer.speech_started", "input_audio_buffer.speech_stopped",
   "error:input_audio_buffer_commit_empty",
   "error:conversation_already_has_active_response", "error:other"}

VARIABLES
  \* ClientHandler
  state, audioBuffer, writeOffset, openai, isOpenAIConnected, isClosing,
  speechStartedTime, speechEndedTime, confirmTimers,
  \* OpenAIRealtimeConnection
  ws, sockets, isConnected, reconnectAttempts, isReconnecting, shouldReconnect,
  circuitBreakerState, failureCount, lastFailureTime,
  reconnectTimeout, connectTimeout, reconnectionConfig,
  \* RateLimiter and the transport socket of the session (index.ts)
  messageCount, windowStart, closeCode,
  \* environment
  now, ticks, respActive,
  \* what the last step was and what it emitted
  ev, toClient, toUpstream, threw,
  \* how many times the terminal failure was handed to the error callback
  terminalFailures,
  \* how far the upstream request of a response has got since the last
  \* audio_done: "none", "committed" or "created"
  responseRequested,
  \* stand-alone state machine specification
  calls

vars == <<state, audioBuffer, writeOffset, openai, isOpenAIConnected, isClosing,
          speechStartedTime, speechEndedTime, confirmTimers,
          ws, sockets, isConnected, reconnectAttempts, isReconnecting,
          shouldReconnect, circuitBreakerState, failureCount, lastFailureTime,
          reconnectTimeout, connectTimeout, reconnectionConfig,
          messageCount, windowStart, closeCode, now, ticks, respActive,
          ev, toClient, toUpstream, threw, terminalFailures,
          responseRequested, calls>>

NoTimer == [kind |-> "none", due |-> NULL]

Max(a, b) == IF a > b THEN a ELSE b
Min(a, b) == IF a < b THEN a ELSE b

RECURSIVE Pow(_, _)
Pow(b, e) == IF e = 0 THEN 1 ELSE b * Pow(b, e - 1)

(***************************************************************************)
(* The program state as one record, so that a handler is the sequential    *)
(* composition of the statements of its code.  toClient / toUpstream       *)
(* collect what the running handler sends; exc is a pending exception;     *)
(* blocked marks a run that needs more sockets than MaxSockets.            *)
(***************************************************************************)
Cur ==
  [state |-> state, audioBuffer |-> audioBuffer, writeOffset |-> writeOffset,
   openai |-> openai, isOpenAIConnected |-> isOpenAIConnected,
   isClosing |-> isClosing, speechStartedTime |-> speechStartedTime,
   speechEndedTime |-> speechEndedTime, confirmTimers |-> confirmTimers,
   ws |-> ws, sockets |-> sockets, isConnected |-> isConnected,
   reconnectAttempts |-> reconnectAttempts, isReconnecting |-> isReconnecting,
   shouldReconnect |-> shouldReconnect,
   circuitBreakerState |-> circuitBreakerState, failureCount |-> failureCount,
   lastFailureTime |-> lastFailureTime, reconnectTimeout |-> reconnectTimeout,
   connectTimeout |-> connectTimeout, respActive |-> respActive,
   terminalFailures |-> terminalFailures,
   responseRequested |-> responseRequested,
   toClient |-> <<>>, toUpstream |-> <<>>, exc |-> FALSE, blocked |-> FALSE]

Commit(r, e) ==
  /\ ~r.blocked
  /\ state' = r.state
  /\ audioBuffer' = r.audioBuffer
  /\ writeOffset' = r.writeOffset
  /\ openai' = r.openai
  /\ isOpenAIConnected' = r.isOpenAIConnected
  /\ isClosing' = r.isClosing
  /\ speechStartedTime' = r.speechStartedTime
  /\ speechEndedTime' = r.speechEndedTime
  /\ confirmTimers' = r.confirmTimers
  /\ ws' = r.ws
  /\ sockets' = r.sockets
  /\ isConnected' = r.isConnected
  /\ reconnectAttempts' = r.reconnectAttempts
  /\ isReconnecting' = r.isReconnecting
  /\ shouldReconnect' = r.shouldReconnect
  /\ circuitBreakerState' = r.circuitBreakerState
  /\ failureCount' = r.failureCount
  /\ lastFailureTime' = r.lastFailureTime
  /\ reconnectTimeout' = r.reconnectTimeout
  /\ connectTimeout' = r.connectTimeout
  /\ respActive' = r.respActive
  /\ terminalFailures' = r.terminalFailures
  /\ responseRequested' = r.responseRequested
  /\ toClient' = r.toClient
  /\ toUpstream' = r.toUpstream
  /\ threw' = r.exc
  /\ ev' = e

Event(op, arg) == [op |-> op, arg |-> arg, pre |-> state]

(***************************************************************************)
(* AgentStateMachine                                                       *)
(***************************************************************************)
VALID_TRANSITIONS_Loose ==
  [IDLE |-> {"LISTENING"}, LISTENING |-> {"THINKING", "IDLE"},
   THINKING |-> {"SPEAKING", "IDLE"}, SPEAKING |-> {"IDLE", "LISTENING"}]

VALID_TRANSITIONS ==
  [IDLE |-> {"LISTENING"}, LISTENING |-> {"THINKING"},
   THINKING |-> {"SPEAKING", "IDLE"}, SPEAKING |-> {"IDLE"}]

transitionTo(r, newState) ==
  IF newState \notin VALID_TRANSITIONS[r.state]
  THEN r
  ELSE [r EXCEPT !.state = newState]

reset(r) == [r EXCEPT !.state = "IDLE"]

(***************************************************************************)
(* OpenAIRealtimeConnection: sending                                       *)
(***************************************************************************)
SocketOpen(r) == r.ws # 0 /\ r.sockets[r.ws] = "OPEN"

\* sendMessage throws when this.ws is not OPEN; a sent message is recorded
\* with the turn state at the moment of sending and the socket it went to
sendMessage(r, type, bytes) ==
  IF r.exc THEN r
  ELSE IF ~SocketOpen(r) THEN [r EXCEPT !.exc = TRUE]
  ELSE [r EXCEPT
          !.toUpstream = Append(@, [type |-> type, bytes |-> bytes,
                                    turn |-> r.state, sock |-> r.ws]),
          !.respActive = IF type = "response.create"
                         THEN @ \cup {r.ws} ELSE @,
          !.responseRequested =
             IF type = "input_audio_buffer.commit" THEN "committed"
             ELSE IF type = "response.create" /\ @ = "committed"
             THEN "created" ELSE @]

appendAudio(r, bytes) == sendMessage(r, "input_audio_buffer.append", bytes)
commitAudio(r) == sendMessage(r, "input_audio_buffer.commit", 0)
createResponse(r) == sendMessage(r, "response.create", 0)
clearInputBuffer(r) == sendMessage(r, "input_audio_buffer.clear", 0)
initializeSession(r) == sendMessage(r, "session.update", 0)

getIsConnected(r) == r.isConnected /\ SocketOpen(r)

(***************************************************************************)
(* ClientHandler: buffer and debounce helpers                              *)
(***************************************************************************)
wouldExceedBufferLimit_NoChunk(r, chunkSize) ==
  r.writeOffset > MAX_AUDIO_BUFFER_BYTES

wouldExceedBufferLimit(r, chunkSize) ==
  r.writeOffset + chunkSize > MAX_AUDIO_BUFFER_BYTES

resetAudioBuffer_KeepOffset(r) == [r EXCEPT !.audioBuffer = <<>>]

\* audioBuffer = null is the empty sequence: the buffer is allocated only
\* to be written at once, so it is non-null iff it holds a chunk
resetAudioBuffer(r) == [r EXCEPT !.audioBuffer = <<>>, !.writeOffset = 0]

getBufferSize(r) == r.writeOffset

resetVADDebouncingState(r) ==
  [r EXCEPT !.speechStartedTime = NULL, !.speechEndedTime = NULL]

\* JavaScript truthiness of a number | null timestamp
Truthy(t) == t # NULL /\ t # 0

safeSend(r, type) ==
  IF r.isClosing THEN r
  ELSE [r EXCEPT !.toClient = Append(@, [type |-> type, turn |-> r.state]),
                 !.responseRequested = IF type = "audio_done"
                                       THEN "none" ELSE @]

flushAudioBuffer(r) ==
  IF ~r.openai \/ ~getIsConnected(r) \/ r.audioBuffer = <<>> THEN r
  ELSE IF r.writeOffset = 0 THEN r
  ELSE appendAudio(r, r.writeOffset)

triggerResponse_NoMinimum(r) ==
  IF r.state # "LISTENING" THEN r
  ELSE IF ~r.openai \/ ~r.isOpenAIConnected THEN r
  ELSE createResponse(commitAudio(transitionTo(r, "THINKING")))

triggerResponse(r) ==
  IF r.state # "LISTENING" THEN r
  ELSE IF ~r.openai \/ ~r.isOpenAIConnected THEN r
  ELSE IF getBufferSize(r) < MinCommitBytes THEN r
  ELSE createResponse(commitAudio(transitionTo(r, "THINKING")))

handleOpenAIAudio_Unguarded(r) ==
  LET r1 == IF r.state = "THINKING" THEN transitionTo(r, "SPEAKING") ELSE r
  IN [r1 EXCEPT !.toClient = Append(@, [type |-> "audio", turn |-> r1.state])]

handleOpenAIAudio(r) ==
  IF r.isClosing THEN r
  ELSE LET r1 == IF r.state = "THINKING"
                 THEN transitionTo(r, "SPEAKING") ELSE r
       IN safeSend(r1, "audio")

handleResponseCompleted_SpeakingOnly(r) ==
  IF r.isClosing THEN r
  ELSE IF r.state \in {"SPEAKING"}
  THEN LET r1 == safeSend(r, "audio_done")
           r2 == transitionTo(r1, "IDLE")
           r3 == resetVADDebouncingState(resetAudioBuffer(r2))
       IN IF r3.openai /\ r3.isOpenAIConnected
          THEN clearInputBuffer(r3) ELSE r3
  ELSE r

handleResponseCompleted_AnyState(r) ==
  IF r.isClosing THEN r
  ELSE LET r1 == safeSend(r, "audio_done")
           r2 == transitionTo(r1, "IDLE")
           r3 == resetVADDebouncingState(resetAudioBuffer(r2))
       IN IF r3.openai /\ r3.isOpenAIConnected
          THEN clearInputBuffer(r3) ELSE r3

handleResponseCompleted(r) ==
  IF r.isClosing THEN r
  ELSE IF r.state \in {"SPEAKING", "THINKING"}
  THEN LET r1 == safeSend(r, "audio_done")
           r2 == transitionTo(r1, "IDLE")
           r3 == resetVADDebouncingState(resetAudioBuffer(r2))
       IN IF r3.openai /\ r3.isOpenAIConnected
          THEN clearInputBuffer(r3) ELSE r3
  ELSE r

(***************************************************************************)
(* ClientHandler: the callbacks handed to OpenAIRealtimeConnection         *)
(***************************************************************************)
onError_KeepBuffer(r) == reset(r)

onError(r) == resetAudioBuffer(reset(r))

onConnected(r) == flushAudioBuffer([r EXCEPT !.isOpenAIConnected = TRUE])

onDisconnected(r) == [r EXCEPT !.isOpenAIConnected = FALSE]

onSpeechStarted_NoCooldown(r) ==
  IF r.state = "IDLE"
  THEN [r EXCEPT !.speechStartedTime = now,
                 !.confirmTimers = @ \cup {now}]
  ELSE IF r.state = "LISTENING"
  THEN [r EXCEPT !.speechStartedTime = NULL]
  ELSE r

onSpeechStarted(r) ==
  IF Truthy(r.speechEndedTime) /\ now - r.speechEndedTime < SPEECH_COOLDOWN_MS
  THEN r
  ELSE IF r.state = "IDLE"
  THEN [r EXCEPT !.speechStartedTime = now,
                 !.confirmTimers = @ \cup {now}]
  ELSE IF r.state = "LISTENING"
  THEN [r EXCEPT !.speechStartedTime = NULL]
  ELSE r

onSpeechStopped_KeepProvisional(r) ==
  IF r.state = "LISTENING"
  THEN triggerResponse([r EXCEPT !.speechEndedTime = now,
                                 !.speechStartedTime = NULL])
  ELSE IF r.state = "IDLE" /\ Truthy(r.speechStartedTime)
  THEN resetAudioBuffer(r)
  ELSE r

onSpeechStopped_StampAlways(r) ==
  IF r.state = "LISTENING"
  THEN triggerResponse([r EXCEPT !.speechEndedTime = now,
                                 !.speechStartedTime = NULL])
  ELSE IF r.state = "IDLE" /\ Truthy(r.speechStartedTime)
  THEN [resetAudioBuffer(r) EXCEPT !.speechStartedTime = NULL]
  ELSE [r EXCEPT !.speechEndedTime = now]

onSpeechStopped(r) ==
  IF r.state = "LISTENING"
  THEN triggerResponse([r EXCEPT !.speechEndedTime = now,
                                 !.speechStartedTime = NULL])
  ELSE IF r.state = "IDLE" /\ Truthy(r.speechStartedTime)
  THEN [resetAudioBuffer(r) EXCEPT !.speechStartedTime = NULL]
  ELSE r

confirmSpeech_NoGuard(r, t0) ==
  IF r.state = "IDLE"
  THEN transitionTo(r, "LISTENING")
  ELSE r

\* the callback of the setTimeout armed by onSpeechStarted at time t0
confirmSpeech(r, t0) ==
  IF r.speechStartedTime = t0 /\ r.state = "IDLE"
  THEN transitionTo(r, "LISTENING")
  ELSE r

(***************************************************************************)
(* OpenAIRealtimeConnection: circuit breaker, reconnection, connect        *)
(***************************************************************************)
canAttemptConnection(r) ==
  IF r.circuitBreakerState = "CLOSED" THEN TRUE
  ELSE IF r.circuitBreakerState = "OPEN"
  THEN now - r.lastFailureTime >= resetTimeoutMs
  ELSE TRUE

openCircuitBreaker(r) ==
  [r EXCEPT !.circuitBreakerState = "OPEN", !.lastFailureTime = now]

resetCircuitBreaker_KeepCount(r) ==
  [r EXCEPT !.circuitBreakerState = "CLOSED"]

resetCircuitBreaker(r) ==
  [r EXCEPT !.circuitBreakerState = "CLOSED", !.failureCount = 0]

\* ws.close(): readyState becomes CLOSING; ABORTING marks a socket closed
\* while CONNECTING, whose handshake is aborted and which never delivers a
\* message; a socket that is already CLOSED and no longer referenced is
\* garbage (FREE)
CloseSocket(socks, s) ==
  [socks EXCEPT ![s] = IF @ = "CLOSED" THEN "FREE"
                       ELSE IF @ \in {"ERRORED", "ABORTING"} THEN @
                       ELSE IF @ = "CONNECTING" THEN "ABORTING"
                       ELSE "CLOSING"]

disconnect_KeepReconnect(r) ==
  LET r1 == [r EXCEPT !.isReconnecting = FALSE,
                      !.reconnectTimeout = NoTimer, !.connectTimeout = NULL]
      r2 == IF r1.ws # 0
            THEN [r1 EXCEPT !.sockets = CloseSocket(@, r1.ws), !.ws = 0]
            ELSE r1
  IN [r2 EXCEPT !.isConnected = FALSE]

disconnect(r) ==
  LET r1 == [r EXCEPT !.shouldReconnect = FALSE, !.isReconnecting = FALSE,
                      !.reconnectTimeout = NoTimer, !.connectTimeout = NULL]
      r2 == IF r1.ws # 0
            THEN [r1 EXCEPT !.sockets = CloseSocket(@, r1.ws), !.ws = 0]
            ELSE r1
  IN [r2 EXCEPT !.isConnected = FALSE]

\* new WebSocket(...): the lowest socket slot that is not in use
FreeSlots(r) == {s \in SocketIds : r.sockets[s] = "FREE"}

newWebSocket(r) ==
  IF FreeSlots(r) = {} THEN [r EXCEPT !.blocked = TRUE]
  ELSE LET s == CHOOSE x \in FreeSlots(r) : \A y \in FreeSlots(r) : x <= y
       IN [r EXCEPT !.ws = s, !.sockets[s] = "CONNECTING"]

connect_NoConnectingCheck(r) ==
  IF ~canAttemptConnection(r) THEN r
  ELSE IF r.ws # 0 /\ r.sockets[r.ws] = "OPEN" THEN r
  ELSE LET r1 == IF r.ws # 0 THEN disconnect(r) ELSE r
           r2 == [r1 EXCEPT !.shouldReconnect = TRUE,
                            !.connectTimeout = now + connectionTimeoutMs]
       IN newWebSocket(r2)

connect(r) ==
  IF ~canAttemptConnection(r) THEN r
  ELSE IF r.ws # 0 /\ r.sockets[r.ws] = "OPEN" THEN r
  ELSE IF r.ws # 0 /\ r.sockets[r.ws] = "CONNECTING" THEN r
  ELSE LET r1 == IF r.ws # 0 THEN disconnect(r) ELSE r
           r2 == [r1 EXCEPT !.shouldReconnect = TRUE,
                            !.connectTimeout = now + connectionTimeoutMs]
       IN newWebSocket(r2)

attemptReconnection(r) == IF r.shouldReconnect THEN connect(r) ELSE r

baseDelay_NoCap(attempt) ==
  initialDelayMs * Pow(backoffMultiplier, attempt)

baseDelay(attempt) ==
  Min(initialDelayMs * Pow(backoffMultiplier, attempt), maxDelayMs)

scheduleReconnection(r, jitter) ==
  IF ~canAttemptConnection(r)
  THEN LET cooldownEnd == r.lastFailureTime + resetTimeoutMs
           cooldownRemaining == Max(0, cooldownEnd - now)
       IN [r EXCEPT !.reconnectTimeout =
                       [kind |-> "halfopen", due |-> now + cooldownRemaining]]
  ELSE LET delay == Max(0, baseDelay(r.reconnectAttempts) + jitter)
       IN [r EXCEPT !.isReconnecting = TRUE,
                    !.reconnectAttempts = @ + 1,
                    !.reconnectTimeout = [kind |-> "retry", due |-> now + delay]]

callbacksWithErrorInfo(r) ==
  onError([r EXCEPT !.terminalFailures = @ + 1])

handleConnectionError(r, jitter) ==
  LET r1 == [r EXCEPT !.isConnected = FALSE, !.failureCount = @ + 1,
                      !.lastFailureTime = now]
      r2 == IF r1.failureCount >= failureThreshold
            THEN openCircuitBreaker(r1) ELSE r1
  IN IF r2.shouldReconnect /\ r2.reconnectAttempts < reconnectionConfig.maxAttempts
     THEN scheduleReconnection(r2, jitter)
     ELSE IF r2.reconnectAttempts >= reconnectionConfig.maxAttempts
     THEN callbacksWithErrorInfo(r2)
     ELSE r2

handleMessage(r, type) ==
  CASE type = "response.audio.delta" -> handleOpenAIAudio(r)
    [] type = "response.completed" -> r
    [] type = "input_audio_buffer.speech_started" -> onSpeechStarted(r)
    [] type = "input_audio_buffer.speech_stopped" -> onSpeechStopped(r)
    [] type = "error:input_audio_buffer_commit_empty" -> r
    [] type = "error:conversation_already_has_active_response" -> r
    [] type = "error:other" -> onError(r)
    [] type = "response.done" -> handleResponseCompleted(r)
    [] OTHER -> r

wsOnOpen_FlushFirst(r) ==
  LET r1 == [r EXCEPT !.connectTimeout = NULL, !.isConnected = TRUE]
      r2 == [resetCircuitBreaker(r1) EXCEPT !.reconnectAttempts = 0,
                                            !.isReconnecting = FALSE]
      r3 == onConnected(r2)
  IN IF r3.exc THEN r3 ELSE initializeSession(r3)

\* the four listeners connect() installs on a socket
wsOnOpen(r) ==
  LET r1 == [r EXCEPT !.connectTimeout = NULL, !.isConnected = TRUE]
      r2 == [resetCircuitBreaker(r1) EXCEPT !.reconnectAttempts = 0,
                                            !.isReconnecting = FALSE]
      r3 == initializeSession(r2)
  IN IF r3.exc THEN r3 ELSE onConnected(r3)

wsOnMessage(r, type) == handleMessage(r, type)

wsOnError(r, jitter) == onError(handleConnectionError(r, jitter))

wsOnClose(r, jitter) ==
  LET r1 == [r EXCEPT !.connectTimeout = NULL, !.isConnected = FALSE]
      r2 == IF r1.shouldReconnect
            THEN handleConnectionError(r1, jitter) ELSE r1
  IN onDisconnected(r2)

(***************************************************************************)
(* ClientHandler: inbound audio and teardown                               *)
(***************************************************************************)
ensureOpenAIConnected_CreateOnly(r) ==
  IF r.openai THEN r ELSE connect([r EXCEPT !.openai = TRUE])

ensureOpenAIConnected(r) ==
  IF r.openai /\ getIsConnected(r) THEN r
  ELSE IF r.openai THEN connect(r)
  ELSE connect([r EXCEPT !.openai = TRUE])

processAudio_StoreInIdle(r, len) ==
  IF wouldExceedBufferLimit(r, len)
  THEN transitionTo(resetAudioBuffer(r), "IDLE")
  ELSE LET r2 == [r EXCEPT
                    !.audioBuffer = Append(@, [at |-> r.writeOffset,
                                               len |-> len]),
                    !.writeOffset = @ + len]
       IN IF r2.openai /\ r2.isOpenAIConnected
          THEN appendAudio(r2, len) ELSE r2

processAudio(r, len) ==
  IF wouldExceedBufferLimit(r, len)
  THEN transitionTo(resetAudioBuffer(r), "IDLE")
  ELSE LET r1 == IF r.state = "IDLE"
                 THEN resetAudioBuffer(transitionTo(r, "LISTENING")) ELSE r
           r2 == [r1 EXCEPT
                    !.audioBuffer = Append(@, [at |-> r1.writeOffset,
                                               len |-> len]),
                    !.writeOffset = @ + len]
       IN IF r2.openai /\ r2.isOpenAIConnected
          THEN appendAudio(r2, len) ELSE r2

DropStates_ThinkingOnly == {"THINKING"}

DropStates == {"THINKING", "SPEAKING"}

handleAudioChunk(r, len) ==
  LET r1 == ensureOpenAIConnected(r)
  IN IF r1.state \in DropStates THEN r1 ELSE processAudio(r1, len)

markAsClosing(r) == [r EXCEPT !.isClosing = TRUE]

cleanup(r) ==
  LET r1 == IF r.openai THEN [disconnect(r) EXCEPT !.openai = FALSE] ELSE r
      r2 == [r1 EXCEPT !.isOpenAIConnected = FALSE]
  IN resetVADDebouncingState(resetAudioBuffer(r2))

(***************************************************************************)
(* RateLimiter and the message handler of the transport endpoint           *)
(***************************************************************************)
\* the limiter as a record; allowed is the value allow() returns
Limiter ==
  [messageCount |-> messageCount, windowStart |-> windowStart,
   allowed |-> FALSE]

allow_LateReset(l, t) ==
  LET l1 == IF t - l.windowStart > windowMs
            THEN [l EXCEPT !.messageCount = 0, !.windowStart = t] ELSE l
  IN IF l1.messageCount >= maxMessages
     THEN [l1 EXCEPT !.allowed = FALSE]
     ELSE [l1 EXCEPT !.messageCount = @ + 1, !.allowed = TRUE]

\* RateLimiter.allow() called at time t
allow(l, t) ==
  LET l1 == IF t - l.windowStart >= windowMs
            THEN [l EXCEPT !.messageCount = 0, !.windowStart = t] ELSE l
  IN IF l1.messageCount >= maxMessages
     THEN [l1 EXCEPT !.allowed = FALSE]
     ELSE [l1 EXCEPT !.messageCount = @ + 1, !.allowed = TRUE]

message_ForwardOversized(r, l, t, len) ==
  LET l1 == allow(l, t)
  IN IF ~l1.allowed
     THEN [session |-> r, limiter |-> l1, close |-> 1008]
     ELSE IF len < MIN_AUDIO_PACKET_SIZE
     THEN [session |-> r, limiter |-> l1, close |-> NULL]
     ELSE [session |-> handleAudioChunk(r, len), limiter |-> l1,
           close |-> NULL]

\* index.ts message() for a binary message of len bytes received at time t:
\* close is the code of the ws.close() call it makes, if any
message(r, l, t, len) ==
  LET l1 == allow(l, t)
  IN IF ~l1.allowed
     THEN [session |-> r, limiter |-> l1, close |-> 1008]
     ELSE IF len < MIN_AUDIO_PACKET_SIZE
     THEN [session |-> r, limiter |-> l1, close |-> NULL]
     ELSE IF len > MAX_AUDIO_PACKET_BYTES
     THEN [session |-> r, limiter |-> l1, close |-> 1008]
     ELSE [session |-> handleAudioChunk(r, len), limiter |-> l1,
           close |-> NULL]

(***************************************************************************)
(* Initial state: a session right after its construction (index.ts open)   *)
(***************************************************************************)
DEFAULT_RECONNECTION == [maxAttempts |-> maxAttempts]

\* a session whose upstream connection is constructed with the given
\* reconnectionConfig (the other fields keep their defaults)
Constructed(reconnection) ==
  /\ state = "IDLE"
  /\ audioBuffer = <<>>
  /\ writeOffset = 0
  /\ openai = FALSE
  /\ isOpenAIConnected = FALSE
  /\ isClosing = FALSE
  /\ speechStartedTime = NULL
  /\ speechEndedTime = NULL
  /\ confirmTimers = {}
  /\ ws = 0
  /\ sockets = [s \in SocketIds |-> "FREE"]
  /\ isConnected = FALSE
  /\ reconnectAttempts = 0
  /\ isReconnecting = FALSE
  /\ shouldReconnect = FALSE
  /\ circuitBreakerState = "CLOSED"
  /\ failureCount = 0
  /\ lastFailureTime = 0
  /\ reconnectTimeout = NoTimer
  /\ connectTimeout = NULL
  /\ now = StartTime
  /\ ticks = 0
  /\ respActive = {}
  /\ ev = [op |-> "init", arg |-> 0, pre |-> "IDLE"]
  /\ toClient = <<>>
  /\ toUpstream = <<>>
  /\ threw = FALSE
  /\ calls = <<>>
  /\ terminalFailures = 0
  /\ responseRequested = "none"
  /\ reconnectionConfig = reconnection
  /\ messageCount = 0
  /\ windowStart = StartTime
  /\ closeCode = NULL

Init == Constructed(DEFAULT_RECONNECTION)

\* what no handler of the session or of its connection assigns
gate == <<messageCount, windowStart, closeCode>>

Step(r, e) ==
  /\ Commit(r, e)
  /\ UNCHANGED <<now, ticks, calls, reconnectionConfig, gate>>

\* a socket that emitted 'error' emits 'close' right after it, before any
\* other event of the session is processed; ERRORED marks the socket between
\* the two listeners (its readyState is CLOSING)
NoneErrored == \A s \in SocketIds : sockets[s] # "ERRORED"

(***************************************************************************)
(* Actions: one per event the session processes                            *)
(***************************************************************************)
\* index.ts message(): an inbound binary chunk reaches the handler, which is
\* in the clientHandlers map until the transport closes
HandleAudioChunk(len) ==
  /\ NoneErrored
  /\ ~isClosing
  /\ Step(handleAudioChunk(Cur, len), Event("audioChunk", len))

\* the upstream handshake completes
WsOpen(s) ==
  /\ NoneErrored
  /\ sockets[s] = "CONNECTING"
  /\ Step(wsOnOpen([Cur EXCEPT !.sockets[s] = "OPEN"]), Event("open", s))

\* the upstream sends a message; audio deltas and response.done belong to a
\* response requested on that socket; the listener catches what
\* handleMessage throws
WsMessage(s, type) ==
  /\ NoneErrored
  /\ sockets[s] = "OPEN"
  /\ type \in {"response.audio.delta", "response.done"} => s \in respActive
  /\ LET r0 == IF type = "response.done"
               THEN [Cur EXCEPT !.respActive = @ \ {s}] ELSE Cur
     IN Step(wsOnMessage(r0, type), Event(type, s))

\* the socket fails: 'error' is emitted, 'close' follows later
SocketError(s, jitter) ==
  /\ NoneErrored
  /\ sockets[s] \in {"CONNECTING", "OPEN"}
  /\ Step(wsOnError([Cur EXCEPT !.sockets[s] = "ERRORED",
                                !.respActive = @ \ {s}], jitter),
          Event("error", s))

WsError(s, jitter) ==
  /\ failureCount < MaxFailures
  /\ SocketError(s, jitter)

\* the peer's close frame arrives: readyState is CLOSING until 'close'
WsPeerClosing(s) ==
  /\ NoneErrored
  /\ sockets[s] = "OPEN"
  /\ Step([Cur EXCEPT !.sockets[s] = "CLOSING", !.respActive = @ \ {s}],
          Event("closing", s))

\* 'close' is emitted; a closed socket nobody references is garbage
SocketClose(s, jitter) ==
  /\ \/ sockets[s] = "ERRORED"
     \/ NoneErrored /\ sockets[s] \in {"OPEN", "CLOSING", "ABORTING"}
  /\ Step(wsOnClose([Cur EXCEPT
                       !.sockets[s] = IF s = ws THEN "CLOSED" ELSE "FREE",
                       !.respActive = @ \ {s}], jitter),
          Event("close", s))

WsClose(s, jitter) ==
  /\ (shouldReconnect /\ sockets[s] # "ERRORED") => failureCount < MaxFailures
  /\ SocketClose(s, jitter)

\* the confirmation timer armed by onSpeechStarted at t0 fires
ConfirmTimerFires(t0) ==
  /\ NoneErrored
  /\ t0 \in confirmTimers
  /\ now >= t0 + SPEAKING_CONFIRMATION_MS
  /\ Step(confirmSpeech([Cur EXCEPT !.confirmTimers = @ \ {t0}], t0),
          Event("confirmTimer", t0))

ConnectTimeout(jitter) ==
  /\ NoneErrored
  /\ connectTimeout \notin {NULL, EXPIRED}
  /\ now >= connectTimeout
  /\ Step(handleConnectionError([Cur EXCEPT !.connectTimeout = EXPIRED],
                                jitter),
          Event("connectTimeout", 0))

ConnectTimeoutFires(jitter) ==
  /\ failureCount < MaxFailures
  /\ ConnectTimeout(jitter)

ReconnectTimerFires ==
  /\ NoneErrored
  /\ reconnectTimeout.kind # "none"
  /\ now >= reconnectTimeout.due
  /\ LET r0 == [Cur EXCEPT !.reconnectTimeout = NoTimer]
         r1 == IF reconnectTimeout.kind = "halfopen"
               THEN [r0 EXCEPT !.circuitBreakerState = "HALF_OPEN"] ELSE r0
     IN Step(attemptReconnection(r1), Event("reconnectTimer", 0))

\* index.ts close(): markAsClosing, cleanup, removal from clientHandlers
TransportClose ==
  /\ NoneErrored
  /\ ~isClosing
  /\ Step(cleanup(markAsClosing(Cur)), Event("transportClose", 0))

\* the wall clock advances
Advance(d) ==
  /\ NoneErrored
  /\ now' = now + d
  /\ ticks' = ticks + 1
  /\ Commit(Cur, Event("tick", d))
  /\ UNCHANGED <<calls, reconnectionConfig, gate>>

Tick(d) ==
  /\ ticks < MaxTicks
  /\ Advance(d)

Next ==
  \/ \E len \in ChunkSizes : HandleAudioChunk(len)
  \/ \E s \in SocketIds : WsOpen(s)
  \/ \E s \in SocketIds, type \in UpstreamMessageTypes : WsMessage(s, type)
  \/ \E s \in SocketIds, j \in Jitters : WsError(s, j)
  \/ \E s \in SocketIds : WsPeerClosing(s)
  \/ \E s \in SocketIds, j \in Jitters : WsClose(s, j)
  \/ \E t0 \in confirmTimers : ConfirmTimerFires(t0)
  \/ \E j \in Jitters : ConnectTimeoutFires(j)
  \/ ReconnectTimerFires
  \/ TransportClose
  \/ \E d \in TickDeltas : Tick(d)

Spec == Init /\ [][Next]_vars

(***************************************************************************)
(* The state machine on its own: any sequence of transitionTo() and        *)
(* reset() calls, recorded in calls                                        *)
(***************************************************************************)
CallStep(r, op, arg) ==
  /\ Len(calls) < MaxCalls
  /\ calls' = Append(calls, [op |-> op, arg |-> arg])
  /\ Commit(r, [op |-> op, arg |-> arg, pre |-> state])
  /\ UNCHANGED <<now, ticks, reconnectionConfig, gate>>

TransitionToCall(target) ==
  CallStep(transitionTo(Cur, target), "transitionTo", target)

ResetCall == CallStep(reset(Cur), "reset", "IDLE")

NextSM ==
  \/ \E target \in AgentState : TransitionToCall(target)
  \/ ResetCall

SpecSM == Init /\ [][NextSM]_vars

(***************************************************************************)
(* The circuit breaker: the session keeps sending audio while the upstream *)
(* refuses or drops connections, long enough for the breaker to open, to   *)
(* cool down and to let a trial connection through.  The upstream sends    *)
(* no messages here and reconnect delays carry no jitter.                  *)
(***************************************************************************)
CBAudioChunk == HandleAudioChunk(ChunkLarge)

CBWsOpen(s) == WsOpen(s)

CBWsError(s) ==
  /\ failureCount < MaxFailuresCB
  /\ SocketError(s, 0)

CBWsClose(s) ==
  /\ (shouldReconnect /\ sockets[s] # "ERRORED") => failureCount < MaxFailuresCB
  /\ SocketClose(s, 0)

CBConnectTimeoutFires ==
  /\ failureCount < MaxFailuresCB
  /\ ConnectTimeout(0)

CBTick(d) ==
  /\ ticks < MaxTicksCB
  /\ Advance(d)

NextCB ==
  \/ CBAudioChunk
  \/ \E s \in SocketIds : CBWsOpen(s)
  \/ \E s \in SocketIds : CBWsError(s)
  \/ \E s \in SocketIds : CBWsClose(s)
  \/ \E s \in SocketIds : WsPeerClosing(s)
  \/ CBConnectTimeoutFires
  \/ ReconnectTimerFires
  \/ \E d \in TickDeltas : CBTick(d)

SpecCB == Init /\ [][NextCB]_vars

(***************************************************************************)
(* The backoff delay on its own: scheduleReconnection() called again and   *)
(* again on a fresh connection, as handleConnectionError calls it while    *)
(* reconnectAttempts is below maxAttempts, with sampled values of          *)
(* Math.random() * jitterMs * 2 - jitterMs                                 *)
(***************************************************************************)
JitterSamples ==
  {-jitterMs, 1 - jitterMs, -250, -100, -1, 0, 1, 100, 250,
   jitterMs - 2, jitterMs - 1}

ScheduleReconnectionCall(jitter) ==
  /\ reconnectAttempts < maxAttempts
  /\ Step(scheduleReconnection(Cur, jitter),
          Event("scheduleReconnection", jitter))

NextBackoff == \E j \in JitterSamples : ScheduleReconnectionCall(j)

SpecBackoff == Init /\ [][NextBackoff]_vars

(***************************************************************************)
(* Reconnect exhaustion: the same environment around a connection that is  *)
(* constructed with a maxAttempts below failureThreshold, so that the      *)
(* attempt counter reaches it                                              *)
(***************************************************************************)
InitRA == Constructed([maxAttempts |-> MaxAttemptsRA])

NextRA ==
  /\ terminalFailures < MaxReportsRA
  /\ NextCB

SpecRA == InitRA /\ [][NextRA]_vars

(***************************************************************************)
(* The rate limiter on its own: allow() called at any time, as often as    *)
(* the caller likes, while the clock advances by a millisecond or by one   *)
(* millisecond less than the window                                        *)
(***************************************************************************)
WindowDeltas == {1, windowMs - 1}

AllowCall ==
  LET l == allow(Limiter, now)
  IN /\ messageCount' = l.messageCount
     /\ windowStart' = l.windowStart
     /\ Commit(Cur, Event("allow", l.allowed))
     /\ UNCHANGED <<now, ticks, calls, reconnectionConfig, closeCode>>

RLTick(d) ==
  /\ ticks < MaxTicksRL
  /\ Advance(d)

NextRL ==
  \/ AllowCall
  \/ \E d \in WindowDeltas : RLTick(d)

SpecRL == Init /\ [][NextRL]_vars

(***************************************************************************)
(* The transport endpoint: every inbound message passes the rate limiter   *)
(* and the size checks before it reaches the session; a ws.close() of the  *)
(* endpoint is followed by the close handler of the transport              *)
(***************************************************************************)
PacketSizes ==
  {MIN_AUDIO_PACKET_SIZE - 1, ChunkSmall, ChunkLarge,
   MAX_AUDIO_PACKET_BYTES, MAX_AUDIO_PACKET_BYTES + 1}

Message(len) ==
  /\ NoneErrored
  /\ ~isClosing
  /\ closeCode = NULL
  /\ LET m == message(Cur, Limiter, now, len)
     IN /\ Commit(m.session, Event("message", len))
        /\ messageCount' = m.limiter.messageCount
        /\ windowStart' = m.limiter.windowStart
        /\ closeCode' = m.close
  /\ UNCHANGED <<now, ticks, calls, reconnectionConfig>>

GateWsOpen(s) == WsOpen(s)

GateWsMessage(s, type) == WsMessage(s, type)

GateTick(d) ==
  /\ closeCode = NULL
  /\ ticks < MaxTicksRL
  /\ Advance(d)

NextGate ==
  \/ \E len \in PacketSizes : Message(len)
  \/ \E s \in SocketIds : GateWsOpen(s)
  \/ \E s \in SocketIds :
       GateWsMessage(s, "input_audio_buffer.speech_stopped")
  \/ TransportClose
  \/ \E d \in WindowDeltas : GateTick(d)

SpecGate == Init /\ [][NextGate]_vars

(***************************************************************************)
(* Teardown: the session of Spec, and what a socket that disconnect() has  *)
(* closed still delivers.  ws.close() leaves the socket with its four      *)
(* listeners attached: until 'close' is emitted, the frames an open socket *)
(* had on their way are handed to the message listener, and a failure of   *)
(* the socket or of the aborted handshake is handed to the error listener. *)
(* No peer starts the closing handshake here, so a CLOSING socket is one   *)
(* the program closed.                                                     *)
(***************************************************************************)
LateMessage(s, type) ==
  /\ NoneErrored
  /\ sockets[s] = "CLOSING"
  /\ type \in {"response.audio.delta", "response.done"} => s \in respActive
  /\ LET r0 == IF type = "response.done"
               THEN [Cur EXCEPT !.respActive = @ \ {s}] ELSE Cur
     IN Step(wsOnMessage(r0, type), Event(type, s))

LateError(s, jitter) ==
  /\ NoneErrored
  /\ sockets[s] \in {"CLOSING", "ABORTING"}
  /\ failureCount < MaxFailures
  /\ Step(wsOnError([Cur EXCEPT !.sockets[s] = "ERRORED",
                                !.respActive = @ \ {s}], jitter),
          Event("error", s))

NextTD ==
  \/ \E len \in ChunkSizes : HandleAudioChunk(len)
  \/ \E s \in SocketIds : WsOpen(s)
  \/ \E s \in SocketIds, type \in UpstreamMessageTypes : WsMessage(s, type)
  \/ \E s \in SocketIds, j \in Jitters : WsError(s, j)
  \/ \E s \in SocketIds, j \in Jitters : WsClose(s, j)
  \/ \E t0 \in confirmTimers : ConfirmTimerFires(t0)
  \/ \E j \in Jitters : ConnectTimeoutFires(j)
  \/ ReconnectTimerFires
  \/ TransportClose
  \/ \E d \in TickDeltas : Tick(d)
  \/ \E s \in SocketIds, type \in UpstreamMessageTypes : LateMessage(s, type)
  \/ \E s \in SocketIds, j \in Jitters : LateError(s, j)

SpecTD == Init /\ [][NextTD]_vars

(***************************************************************************)
(* Duplicate completions: the session of Spec with an upstream that may    *)
(* send response.done again, or late, on an open socket that has no        *)
(* response outstanding                                                    *)
(***************************************************************************)
DuplicateDone(s) ==
  /\ NoneErrored
  /\ sockets[s] = "OPEN"
  /\ s \notin respActive
  /\ Step(wsOnMessage(Cur, "response.done"), Event("response.done", s))

NextDup ==
  \/ Next
  \/ \E s \in SocketIds : DuplicateDone(s)

SpecDup == Init /\ [][NextDup]_vars

(***************************************************************************)
(* Fairness: the clock advances, every timer that is armed fires or is     *)
(* cancelled, a socket that is connecting or closing ends up open or       *)
(* closed, and a response requested from the upstream ends with            *)
(* response.done or with the failure of its socket                         *)
(***************************************************************************)
ResponseEnds ==
  \E s \in respActive :
    \/ WsMessage(s, "response.done")
    \/ \E j \in Jitters : WsError(s, j)
    \/ WsPeerClosing(s)
    \/ \E j \in Jitters : WsClose(s, j)

\* no timer is armed and no socket is between two states
Settled ==
  /\ reconnectTimeout = NoTimer
  /\ connectTimeout \in {NULL, EXPIRED}
  /\ confirmTimers = {}
  /\ \A s \in SocketIds : sockets[s] \in {"FREE", "OPEN", "CLOSED"}

FairSpec ==
  /\ Spec
  /\ WF_vars(\E d \in TickDeltas : Tick(d))
  /\ WF_vars(\E s \in SocketIds, j \in Jitters :
               sockets[s] \in {"ERRORED", "CLOSING", "ABORTING"}
               /\ WsClose(s, j))
  /\ WF_vars(ResponseEnds)
  /\ WF_vars(ReconnectTimerFires)
  /\ WF_vars(\E j \in Jitters : ConnectTimeoutFires(j))
  /\ WF_vars(\E t0 \in confirmTimers : ConfirmTimerFires(t0))
  /\ []<>Settled

(***************************************************************************)
(* Helpers of the properties                                               *)
(***************************************************************************)
RECURSIVE SumLen(_)
SumLen(buf) == IF buf = <<>> THEN 0 ELSE buf[1].len + SumLen(Tail(buf))

Types(msgs) == [i \in DOMAIN msgs |-> msgs[i].type]

Sent(msgs, type) == \E i \in DOMAIN msgs : msgs[i].type = type

TurnTable(from) ==
  CASE from = "IDLE" -> {"LISTENING"}
    [] from = "LISTENING" -> {"THINKING"}
    [] from = "THINKING" -> {"SPEAKING", "IDLE"}
    [] from = "SPEAKING" -> {"IDLE"}

TypeOK ==
  /\ state \in AgentState
  /\ writeOffset \in Nat
  /\ ws \in 0..MaxSockets


(***************************************************************************)
(* Claims                                                                  *)
(***************************************************************************)

\* C1: an {"type":"audio"} event is sent to the transport layer only while
\* the turn state is SPEAKING, and an upstream audio delta that arrives in
\* IDLE or LISTENING is not forwarded to the client.
C1_AudioOnlyWhileSpeaking ==
  /\ \A i \in DOMAIN toClient :
       toClient[i].type = "audio" => toClient[i].turn = "SPEAKING"
  /\ (ev.op = "response.audio.delta" /\ ev.pre \in {"IDLE", "LISTENING"})
       => ~Sent(toClient, "audio")

C3_ChunkDroppedOutOfTurn ==
  [][ (ev'.op = "audioChunk" /\ state \in {"THINKING", "SPEAKING"}) =>
        /\ state' = state
        /\ audioBuffer' = audioBuffer
        /\ writeOffset' = writeOffset
        /\ ~Sent(toUpstream', "input_audio_buffer.append") ]_vars

C3_Witness ==
  /\ ev.op = "audioChunk"
  /\ ev.pre = "SPEAKING"
  /\ state = "SPEAKING"
  /\ writeOffset > 0
  /\ isOpenAIConnected

\* C4: 0 <= writeOffset <= MAX_AUDIO_BUFFER_BYTES in every reachable state,
\* and no chunk lies in the buffer at a position that runs past capacity.
C4_WriteOffsetWithinCapacity ==
  /\ 0 <= writeOffset
  /\ writeOffset <= MAX_AUDIO_BUFFER_BYTES
  /\ \A i \in DOMAIN audioBuffer :
       /\ 0 <= audioBuffer[i].at
       /\ audioBuffer[i].at + audioBuffer[i].len <= MAX_AUDIO_BUFFER_BYTES

C4_Witness ==
  /\ ev.op = "audioChunk"
  /\ writeOffset + ChunkSmall > MAX_AUDIO_BUFFER_BYTES

\* C5: writeOffset is the exact cumulative size of the chunks accepted since
\* the buffer was last empty: a chunk accepted in IDLE or LISTENING that
\* fits advances writeOffset by its length and is stored at the old offset;
\* the first chunk that would pass capacity resets writeOffset to 0 and is
\* not stored.
C5_ExactCumulativeSize ==
  /\ [](writeOffset = SumLen(audioBuffer))
  /\ [][ (ev'.op = "audioChunk" /\ state \in {"IDLE", "LISTENING"}) =>
           IF writeOffset + ev'.arg <= MAX_AUDIO_BUFFER_BYTES
           THEN /\ writeOffset' = writeOffset + ev'.arg
                /\ audioBuffer' = Append(audioBuffer, [at |-> writeOffset,
                                                       len |-> ev'.arg])
           ELSE /\ writeOffset' = 0
                /\ audioBuffer' = <<>> ]_vars

C5_Witness ==
  /\ ev.op = "audioChunk"
  /\ Len(audioBuffer) >= 2
  /\ writeOffset = SumLen(audioBuffer)

\* C6: when an inbound chunk would make writeOffset + len(chunk) exceed
\* capacity, the buffer is reset to empty and the turn state is IDLE once
\* the chunk has been handled, in LISTENING as in IDLE.
C6_OverflowForcesIdle ==
  [][ ( /\ ev'.op = "audioChunk"
        /\ state \in {"IDLE", "LISTENING"}
        /\ writeOffset + ev'.arg > MAX_AUDIO_BUFFER_BYTES ) =>
        /\ state' = "IDLE"
        /\ writeOffset' = 0
        /\ audioBuffer' = <<>> ]_vars

\* C7: after an upstream transport failure (socket error event, connect
\* timeout, unexpected close of the current socket) that occurs while the
\* turn state is LISTENING, THINKING or SPEAKING, the turn state is IDLE and
\* the audio buffer is empty once the failure has been handled.
C7_TransportFailureForcesIdle ==
  [][ ( /\ state \in {"LISTENING", "THINKING", "SPEAKING"}
        /\ ~isClosing
        /\ \/ ev'.op = "error"
           \/ ev'.op = "connectTimeout"
           \/ ev'.op = "close" /\ ev'.arg = ws /\ shouldReconnect ) =>
        /\ state' = "IDLE"
        /\ writeOffset' = 0
        /\ audioBuffer' = <<>> ]_vars

\* C8: a live session in THINKING or SPEAKING eventually returns to IDLE,
\* given that every requested response ends with response.done or with a
\* failure of its upstream connection.
C8_NeverStranded ==
  (~isClosing /\ state \in {"THINKING", "SPEAKING"})
    ~> (isClosing \/ state = "IDLE")

\* C9: on speech-stopped while LISTENING with at least 3,200 buffered bytes
\* the session moves to THINKING and the upstream receives a commit followed
\* by a response-create, the commit being sent in turn state THINKING.
C9_TriggerCommits ==
  [][ ( /\ ev'.op = "input_audio_buffer.speech_stopped"
        /\ state = "LISTENING"
        /\ writeOffset >= 3200 ) =>
        /\ state' = "THINKING"
        /\ Types(toUpstream') =
             <<"input_audio_buffer.commit", "response.create">>
        /\ toUpstream'[1].turn = "THINKING" ]_vars

\* C10: on speech-stopped while LISTENING with fewer than 3,200 buffered
\* bytes the trigger is dropped: the turn state stays LISTENING, the
\* buffered audio is kept and neither commit nor response-create is sent.
C10_ShortUtteranceDropped ==
  [][ ( /\ ev'.op = "input_audio_buffer.speech_stopped"
        /\ state = "LISTENING"
        /\ writeOffset < 3200 ) =>
        /\ state' = "LISTENING"
        /\ audioBuffer' = audioBuffer
        /\ writeOffset' = writeOffset
        /\ ~Sent(toUpstream', "input_audio_buffer.commit")
        /\ ~Sent(toUpstream', "response.create") ]_vars

C10_Witness ==
  /\ ev.op = "input_audio_buffer.speech_stopped"
  /\ ev.pre = "LISTENING"
  /\ state = "LISTENING"
  /\ writeOffset > 0
  /\ writeOffset < 3200
  /\ isOpenAIConnected
  /\ speechEndedTime = now

C13_BriefSpeechRejected ==
  [][ /\ ( /\ ev'.op = "input_audio_buffer.speech_stopped"
            /\ state = "IDLE"
            /\ Truthy(speechStartedTime)
            /\ now - speechStartedTime < SPEAKING_CONFIRMATION_MS ) =>
            /\ state' = "IDLE"
            /\ speechStartedTime' = NULL
            /\ confirmTimers' = confirmTimers
      /\ (ev'.op = "confirmTimer" /\ speechStartedTime = NULL) =>
            state' = state ]_vars

C13_Witness ==
  /\ ev.op = "input_audio_buffer.speech_stopped"
  /\ ev.pre = "IDLE"
  /\ state = "IDLE"
  /\ speechStartedTime = NULL
  /\ now \in confirmTimers
  /\ ~isClosing

\* C14: the confirmation timer armed at t0 moves the session to LISTENING
\* when it fires if and only if the turn state is IDLE and speechStartedTime
\* is still t0; otherwise (provisional start cleared, or replaced by the
\* timestamp of a later speech-started) it changes no session field.
C14_ConfirmationGuard ==
  [][ ev'.op = "confirmTimer" =>
        IF state = "IDLE" /\ speechStartedTime = ev'.arg
        THEN state' = "LISTENING"
        ELSE UNCHANGED <<state, audioBuffer, writeOffset, speechStartedTime,
                         speechEndedTime, isOpenAIConnected>> ]_vars

C14_Witness ==
  /\ ev.op = "confirmTimer"
  /\ ev.arg = StartTime
  /\ ev.pre = "IDLE"
  /\ state = "IDLE"
  /\ speechStartedTime = StartTime + SPEAKING_CONFIRMATION_MS
  /\ speechStartedTime \in confirmTimers

\* C15: a speech-started event received in IDLE less than the cooldown
\* window after the recorded speech-ended timestamp is ignored: the
\* provisional start, the set of armed confirmation timers and the turn
\* state are unchanged.
C15_CooldownIgnoresStart ==
  [][ ( /\ ev'.op = "input_audio_buffer.speech_started"
        /\ state = "IDLE"
        /\ speechEndedTime # NULL
        /\ now - speechEndedTime < SPEECH_COOLDOWN_MS ) =>
        UNCHANGED <<state, speechStartedTime, speechEndedTime,
                    confirmTimers>> ]_vars

C15_Witness ==
  /\ ev.op = "input_audio_buffer.speech_started"
  /\ ev.pre = "IDLE"
  /\ state = "IDLE"
  /\ speechEndedTime # NULL
  /\ now - speechEndedTime < SPEECH_COOLDOWN_MS
  /\ speechStartedTime = NULL
  /\ confirmTimers = {}

\* C16: speech-started in THINKING or SPEAKING, and speech-stopped in
\* THINKING, in SPEAKING or in IDLE without a pending provisional start,
\* change nothing: turn state, buffer, debounce timestamps and armed timers
\* are unchanged and nothing is sent upstream or to the client.
C16_OutOfTurnSpeechEventsIgnored ==
  [][ ( \/ /\ ev'.op = "input_audio_buffer.speech_started"
           /\ state \in {"THINKING", "SPEAKING"}
        \/ /\ ev'.op = "input_audio_buffer.speech_stopped"
           /\ \/ state \in {"THINKING", "SPEAKING"}
              \/ state = "IDLE" /\ speechStartedTime = NULL ) =>
        /\ UNCHANGED <<state, audioBuffer, writeOffset, speechStartedTime,
                       speechEndedTime, confirmTimers>>
        /\ toUpstream' = <<>>
        /\ toClient' = <<>> ]_vars

C16_Witness ==
  /\ ev.op = "input_audio_buffer.speech_stopped"
  /\ ev.pre = "SPEAKING"
  /\ state = "SPEAKING"
  /\ speechEndedTime # NULL
  /\ speechEndedTime < now

\* C17: every step that brings the turn state back to IDLE leaves both
\* debounce fields cleared, and a confirmation timer armed before the
\* return does not move the session to LISTENING afterwards.
C17_DebounceClearedOnIdle ==
  [][ (state # "IDLE" /\ state' = "IDLE") =>
        /\ speechStartedTime' = NULL
        /\ speechEndedTime' = NULL ]_vars

\* C18: while the breaker is OPEN and resetTimeoutMs has not elapsed since
\* the last failure, canAttemptConnection() is false; once a trial attempt
\* has been let through (breaker HALF_OPEN, trial socket still connecting,
\* no outcome yet), the query made by the connect() call of the next inbound
\* chunk does not return true again.
C18_BreakerAdmitsOneTrial ==
  [][ /\ ( /\ circuitBreakerState = "OPEN"
            /\ now - lastFailureTime < resetTimeoutMs ) =>
            ~canAttemptConnection(Cur)
      /\ ( /\ ev'.op = "audioChunk"
            /\ openai
            /\ ~getIsConnected(Cur)
            /\ circuitBreakerState = "HALF_OPEN"
            /\ ws # 0
            /\ sockets[ws] = "CONNECTING" ) =>
            ~canAttemptConnection(Cur) ]_vars

\* C19: one connection failure increments failureCount by exactly one: the
\* error event of a socket and a connect timeout add one, the close event
\* that follows the error event of the same socket adds nothing more, the
\* loss of an established socket without error adds one; and the breaker
\* leaves CLOSED for OPEN with failureCount equal to failureThreshold.
C19_OneFailureOneIncrement ==
  [][ /\ ev'.op \in {"error", "connectTimeout"} =>
            failureCount' = failureCount + 1
      /\ (ev'.op = "close" /\ sockets[ev'.arg] = "ERRORED") =>
            failureCount' = failureCount
      /\ ( /\ ev'.op = "close"
            /\ ev'.arg = ws
            /\ sockets[ws] \in {"OPEN", "CLOSING"}
            /\ shouldReconnect ) =>
            failureCount' = failureCount + 1
      /\ (circuitBreakerState = "CLOSED" /\ circuitBreakerState' = "OPEN") =>
            failureCount' = failureThreshold ]_vars

\* C20: when an upstream socket opens, failureCount is 0, the breaker is
\* CLOSED and reconnectAttempts is 0 once the open listener has run,
\* whatever the breaker state was before.
C20_OpenResetsBreaker ==
  [][ ev'.op = "open" =>
        /\ failureCount' = 0
        /\ circuitBreakerState' = "CLOSED"
        /\ reconnectAttempts' = 0 ]_vars

C20_Witness ==
  /\ ev.op = "open"
  /\ circuitBreakerState = "CLOSED"
  /\ failureCount = 0
  /\ reconnectAttempts = 0
  /\ reconnectTimeout.kind = "halfopen"
  /\ lastFailureTime + resetTimeoutMs <= now

\* C21: once the terminal failure has been reported (a failure with
\* reconnectAttempts at maxAttempts), no reconnect timer is armed and no
\* later step, the next inbound audio chunk included, opens a new upstream
\* socket.
C21_ExhaustionIsTerminal ==
  [][ terminalFailures > 0 =>
        /\ reconnectTimeout = NoTimer
        /\ \A s \in SocketIds :
             sockets'[s] = "CONNECTING" => sockets[s] = "CONNECTING" ]_vars

\* C22: the terminal failure is handed to the owner's error callback at
\* most once, however many error and close events follow.
C22_TerminalFailureReportedOnce ==
  terminalFailures <= 1

\* C23: reconnect attempts are counted towards maxAttempts whatever the
\* breaker state: every connection failure handled while reconnection is
\* enabled either counts one more attempt or is reported as the terminal
\* failure with no reconnect timer left pending, so that with every attempt
\* failing the terminal failure is reached after finitely many attempts.
C23_AttemptsCappedUnderBreaker ==
  [][ ( /\ ev'.op \in {"error", "close", "connectTimeout"}
        /\ failureCount' = failureCount + 1
        /\ shouldReconnect ) =>
        \/ reconnectAttempts' = reconnectAttempts + 1
        \/ /\ terminalFailures' = terminalFailures + 1
           /\ reconnectTimeout' = NoTimer ]_vars

\* C24: a reconnect scheduled with reconnectAttempts = k while the breaker
\* permits an attempt is due after max(0, min(initialDelayMs *
\* backoffMultiplier^k, maxDelayMs) + j) with j in [-jitterMs, jitterMs]:
\* never negative, at most maxDelayMs + jitterMs, and the base without
\* jitter does not decrease from k - 1 to k.
C24_BackoffDelay ==
  [][ (ev'.op = "scheduleReconnection" /\ canAttemptConnection(Cur)) =>
        LET k == reconnectAttempts
            j == ev'.arg
            base == Min(initialDelayMs * backoffMultiplier ^ k, maxDelayMs)
            delay == reconnectTimeout'.due - now
        IN /\ reconnectTimeout'.kind = "retry"
           /\ j \in -jitterMs .. jitterMs
           /\ delay = Max(0, base + j)
           /\ delay >= 0
           /\ delay <= maxDelayMs + jitterMs
           /\ k > 0 =>
                Min(initialDelayMs * backoffMultiplier ^ (k - 1), maxDelayMs)
                  <= base ]_vars

C24_Witness ==
  /\ ev.op = "scheduleReconnection"
  /\ reconnectAttempts = 6
  /\ reconnectTimeout.kind = "retry"
  /\ reconnectTimeout.due - now = maxDelayMs + jitterMs - 1

\* C25: a connect timeout increments failureCount and schedules a
\* reconnect, and when the reconnect timer fires while the timed-out
\* socket is still pending (connecting, its timeout expired), a new upstream
\* socket is opened in its place.
C25_TimeoutLeadsToNewSocket ==
  [][ /\ ev'.op = "connectTimeout" =>
            /\ failureCount' = failureCount + 1
            /\ shouldReconnect => reconnectTimeout'.kind # "none"
      /\ ( /\ ev'.op = "reconnectTimer"
            /\ shouldReconnect
            /\ connectTimeout = EXPIRED
            /\ ws # 0
            /\ sockets[ws] = "CONNECTING"
            /\ (reconnectTimeout.kind = "retry" => canAttemptConnection(Cur)) ) =>
            /\ ws' # ws
            /\ ws' # 0
            /\ sockets'[ws'] = "CONNECTING" ]_vars

\* C26: the step in which an upstream socket opens sends exactly one
\* session.update, on that socket and as the first message of the step; no
\* other step sends a session.update; and any other message goes to a socket
\* that was already open before the step or follows the session.update of
\* the opening step.
C26_SessionUpdateFirst ==
  [][ /\ ev'.op = "open" =>
            /\ Len(toUpstream') >= 1
            /\ toUpstream'[1].type = "session.update"
            /\ toUpstream'[1].sock = ev'.arg
            /\ \A i \in 2 .. Len(toUpstream') :
                 toUpstream'[i].type # "session.update"
      /\ ev'.op # "open" => ~Sent(toUpstream', "session.update")
      /\ \A i \in DOMAIN toUpstream' :
            toUpstream'[i].type # "session.update" =>
              \/ sockets[toUpstream'[i].sock] = "OPEN"
              \/ (ev'.op = "open" /\ toUpstream'[i].sock = ev'.arg /\ i > 1)
    ]_vars

C26_Witness ==
  /\ ev.op = "open"
  /\ Types(toUpstream) = <<"session.update", "input_audio_buffer.append">>
  /\ toUpstream[2].sock = ev.arg
  /\ toUpstream[2].bytes = writeOffset

\* C27: while less than windowMs has elapsed since the window start, a call
\* to allow() returns true exactly when fewer than maxMessages calls of the
\* window returned true, and it counts itself only then; the first call
\* made once windowMs has elapsed returns true, starts a new window at the
\* time of the call and is the first message of that window.  The count
\* never exceeds maxMessages.
C27_RateLimiterWindow ==
  [][ ev'.op = "allow" =>
        /\ IF now - windowStart < windowMs
           THEN /\ ev'.arg = (messageCount < maxMessages)
                /\ windowStart' = windowStart
                /\ messageCount' = messageCount + (IF ev'.arg THEN 1 ELSE 0)
           ELSE /\ ev'.arg = TRUE
                /\ windowStart' = now
                /\ messageCount' = 1
        /\ messageCount' <= maxMessages ]_vars

C27_Witness ==
  /\ ev.op = "allow"
  /\ ev.arg = TRUE
  /\ windowStart = StartTime + windowMs
  /\ now = windowStart
  /\ messageCount = 1

\* C28: an inbound message that the rate limiter rejects, or that is larger
\* than MAX_AUDIO_PACKET_BYTES, closes the transport with code 1008 and
\* leaves the turn state, the audio buffer and the upstream connection as
\* they were: nothing is sent upstream and no socket is created.
C28_RejectedMessageClosesTransport ==
  [][ ( /\ ev'.op = "message"
        /\ \/ now - windowStart < windowMs /\ messageCount >= maxMessages
           \/ ev'.arg > MAX_AUDIO_PACKET_BYTES ) =>
        /\ closeCode' = 1008
        /\ state' = state
        /\ audioBuffer' = audioBuffer
        /\ writeOffset' = writeOffset
        /\ toUpstream' = <<>>
        /\ sockets' = sockets
        /\ openai' = openai ]_vars

C28_Witness ==
  /\ ev.op = "message"
  /\ ev.arg = ChunkSmall
  /\ closeCode = 1008
  /\ messageCount = maxMessages
  /\ state = "LISTENING"
  /\ writeOffset = 2 * ChunkSmall
  /\ isOpenAIConnected

\* C29: once markAsClosing() has been called, no step of the session hands
\* anything to the transport send callback: neither an audio nor an
\* audio_done event is emitted, whatever arrives from the upstream.
C29_NoSendAfterClosing ==
  [][ isClosing => toClient' = <<>> ]_vars

C29_Witness ==
  /\ isClosing
  /\ ev.op = "response.audio.delta"
  /\ state = "SPEAKING"
  /\ sockets[ev.arg] = "CLOSING"
  /\ toClient = <<>>

\* C30: after cleanup() no step changes the turn state, the audio buffer,
\* the debounce timestamps or the connected flag of the session, whichever
\* timer fires and whatever the discarded socket still delivers.
C30_TornDownSessionFrozen ==
  [][ (isClosing /\ ~openai) =>
        /\ state' = state
        /\ audioBuffer' = audioBuffer
        /\ writeOffset' = writeOffset
        /\ speechStartedTime' = speechStartedTime
        /\ speechEndedTime' = speechEndedTime
        /\ isOpenAIConnected' = isOpenAIConnected ]_vars

\* C31: from cleanup() on, no reconnect timer and no connect-timeout timer
\* is pending, and no step opens a new upstream socket, also not the error
\* or close event of the socket that cleanup() discarded.
C31_TeardownCancelsReconnect ==
  [][ /\ (isClosing' /\ ~openai') =>
            /\ reconnectTimeout' = NoTimer
            /\ connectTimeout' = NULL
            /\ ws' = 0
      /\ (isClosing /\ ~openai) =>
            \A s \in SocketIds :
              sockets'[s] = "CONNECTING" => sockets[s] = "CONNECTING" ]_vars

C31_Witness ==
  /\ isClosing
  /\ ~openai
  /\ ev.op = "error"
  /\ sockets[ev.arg] = "ERRORED"
  /\ failureCount >= 1
  /\ reconnectTimeout = NoTimer

\* C32: after every step at most one upstream socket is CONNECTING or OPEN,
\* and a step taken while the current socket is CONNECTING or OPEN, be it
\* an inbound chunk or a reconnect timer, creates no socket.
C32_SingleActiveSocket ==
  [][ /\ Cardinality({s \in SocketIds :
                        sockets'[s] \in {"CONNECTING", "OPEN"}}) <= 1
      /\ (ws # 0 /\ sockets[ws] \in {"CONNECTING", "OPEN"}) =>
            /\ \A s \in SocketIds :
                 sockets'[s] = "CONNECTING" => sockets[s] = "CONNECTING"
            /\ ws' \in {ws, 0} ]_vars

C32_Witness ==
  /\ ev.op = "reconnectTimer"
  /\ ws # 0
  /\ sockets[ws] = "CONNECTING"
  /\ connectTimeout = EXPIRED
  /\ Cardinality({s \in SocketIds : sockets[s] # "FREE"}) = 1

\* C33: no upstream socket exists while the session has no upstream handle
\* and is not torn down; an inbound chunk on a session without handle
\* creates the handle and a connecting socket; an inbound chunk on a
\* session whose current socket is neither open nor connecting creates a
\* new connecting socket with its own connect timeout when the circuit
\* breaker admits an attempt, and creates none when it does not.
C33_LazyConnectAndReconnect ==
  [][ /\ (~openai' /\ ~isClosing') =>
            \A s \in SocketIds : sockets'[s] = "FREE"
      /\ (ev'.op = "audioChunk" /\ ~openai) =>
            /\ openai'
            /\ ws' # 0
            /\ sockets'[ws'] = "CONNECTING"
      /\ ( /\ ev'.op = "audioChunk"
           /\ openai
           /\ ws = 0 \/ sockets[ws] \notin {"OPEN", "CONNECTING"} ) =>
            IF canAttemptConnection(Cur)
            THEN /\ ws' # 0
                 /\ sockets[ws'] \notin {"OPEN", "CONNECTING"}
                 /\ sockets'[ws'] = "CONNECTING"
                 /\ connectTimeout' = now + connectionTimeoutMs
                 /\ shouldReconnect'
            ELSE \A s \in SocketIds :
                   sockets'[s] = "CONNECTING" => sockets[s] = "CONNECTING"
    ]_vars

C33_Witness ==
  /\ ev.op = "audioChunk"
  /\ failureCount >= 1
  /\ reconnectAttempts >= 1
  /\ reconnectTimeout = NoTimer
  /\ ws # 0
  /\ sockets[ws] = "CONNECTING"
  /\ connectTimeout = now + connectionTimeoutMs

\* C34: no step creates an upstream socket and leaves the circuit breaker
\* OPEN: once resetTimeoutMs has elapsed since the last failure the breaker
\* is HALF_OPEN by the time the next attempt is let through.
C34_NoSocketWhileOpen ==
  [][ (\E s \in SocketIds :
         sockets'[s] = "CONNECTING" /\ sockets[s] # "CONNECTING") =>
        circuitBreakerState' # "OPEN" ]_vars

\* C35: whenever the session's isOpenAIConnected flag is true and no socket
\* is between its error and its close event, the connection's current
\* socket is OPEN and its isConnected flag is true, so that no inbound
\* chunk processed under the flag fails with "WebSocket is not connected".
C35_ConnectedFlagAccurate ==
  /\ (isOpenAIConnected /\ NoneErrored) => getIsConnected(Cur)
  /\ (ev.op = "audioChunk" /\ isOpenAIConnected) => ~threw

\* C36: the step in which a socket opens appends the bytes buffered so far,
\* [0, writeOffset), to that socket in one message right after the
\* session.update, and nothing else; a chunk that is stored in the buffer
\* while the current socket is open is appended to that socket exactly
\* once, with its own length, in the step that stores it.
C36_AppendInOrderOnce ==
  [][ /\ (ev'.op = "open" /\ ws = ev'.arg /\ writeOffset > 0) =>
            /\ Len(toUpstream') = 2
            /\ toUpstream'[2] = [type |-> "input_audio_buffer.append",
                                 bytes |-> writeOffset, turn |-> state,
                                 sock |-> ev'.arg]
      /\ ( /\ ev'.op = "audioChunk"
           /\ ws # 0
           /\ sockets[ws] = "OPEN"
           /\ Len(audioBuffer') = Len(audioBuffer) + 1 ) =>
            /\ Len(toUpstream') = 1
            /\ toUpstream'[1].type = "input_audio_buffer.append"
            /\ toUpstream'[1].bytes = ev'.arg
            /\ toUpstream'[1].sock = ws ]_vars

\* C37: the close or error event of a socket that is no longer the
\* connection's current socket, because connect() has replaced it, leaves
\* the connect timeout, the isConnected flag, failureCount and the
\* reconnect timer of the current connection as they were.
C37_StaleSocketEventsIgnored ==
  [][ (ev'.op \in {"close", "error"} /\ ws # 0 /\ ev'.arg # ws) =>
        /\ connectTimeout' = connectTimeout
        /\ isConnected' = isConnected
        /\ failureCount' = failureCount
        /\ reconnectTimeout' = reconnectTimeout ]_vars

\* C38: no input_audio_buffer.append is sent upstream while the turn state
\* is THINKING or SPEAKING, also not by the flush of the open listener.
C38_NoAppendWhileResponding ==
  \A i \in DOMAIN toUpstream :
    toUpstream[i].type = "input_audio_buffer.append" =>
      toUpstream[i].turn \notin {"THINKING", "SPEAKING"}

\* C39: in every state of a session that is not torn down, turn state IDLE
\* implies that the audio buffer is empty and its write cursor is 0.
C39_IdleImpliesEmptyBuffer ==
  (state = "IDLE" /\ ~isClosing) => (writeOffset = 0 /\ audioBuffer = <<>>)

C39_Witness ==
  /\ state = "IDLE"
  /\ ~isClosing
  /\ ev.op = "response.done"
  /\ ev.pre = "SPEAKING"
  /\ writeOffset = 0
  /\ Sent(toClient, "audio_done")

\* C40: a step that sends audio_done to the client sends it once, and an
\* input_audio_buffer.commit followed by a response.create has been sent
\* upstream since the previous audio_done (or since the session started),
\* also when response.done arrives twice or late.
C40_OneAudioDonePerResponse ==
  [][ Sent(toClient', "audio_done") =>
        /\ responseRequested = "created"
        /\ Cardinality({i \in DOMAIN toClient' :
                          toClient'[i].type = "audio_done"}) = 1 ]_vars

C40_Witness ==
  /\ ev.op = "response.done"
  /\ ev.pre = "LISTENING"
  /\ ev.arg \notin respActive
  /\ state = "LISTENING"
  /\ responseRequested = "none"
  /\ writeOffset > 0
  /\ toClient = <<>>

====
